---------------------------- MODULE Spec2Model ----------------------------
(***************************************************************************)
(* Mini-Adapton (src/index.ts): a demand-driven incremental computation    *)
(* engine.  The engine's recursive functions (adaptonCompute, adaptonDirty,*)
(* adaptonForce, adaptonRefSet) and the client thunks they call back into  *)
(* are modelled as one call stack of frames, one step per statement group  *)
(* between two calls.  A JavaScript exception unwinds the whole stack (the *)
(* source has no try/catch/finally).                                       *)
(***************************************************************************)
EXTENDS Integers, Sequences, FiniteSets, TLC

\* ------------------------------------------------------------------ bounds
\* Number of adaptons the client creates.
MaxNodes == 3
\* Number of adaptons when the client also edits edges by hand.
MaxEdgeNodes == 2
\* Number of adaptons in the nested-force graphs.
MaxNestNodes == 4
\* Ref cells hold the numbers 0..MaxVal.
MaxVal == 1
\* The JavaScript call stack holds at most MaxDepth frames.
MaxDepth == 16

\* ------------------------------------------------------------------ values
\* JavaScript values the engine stores: numbers, undefined, NaN.
Num(i) == [t |-> "num", v |-> i]
Undefined == [t |-> "undefined", v |-> 0]
NaN == [t |-> "NaN", v |-> 0]
\* The exception the thunk of node a throws.
Thrown(a) == [t |-> "thrown", v |-> a]

\* a + b on JavaScript values (undefined + 3 is NaN, NaN + x is NaN).
JsAdd(a, b) == IF a.t = "num" /\ b.t = "num" THEN Num(a.v + b.v) ELSE NaN
\* a - b on JavaScript values.
JsSub(a, b) == IF a.t = "num" /\ b.t = "num" THEN Num(a.v - b.v) ELSE NaN
\* JavaScript truthiness: 0, undefined and NaN are falsy.
Truthy(a) == a.t = "num" /\ a.v # 0

Range(s) == {s[i] : i \in 1..Len(s)}

\* Set.add on an insertion-ordered Set.
SetAdd(s, x) == IF x \in Range(s) THEN s ELSE Append(s, x)
\* Set.delete on an insertion-ordered Set.
SetDelete(s, x) == SelectSeq(s, LAMBDA e : e # x)

\* ------------------------------------------------------------ client thunks
\* A thunk is the code the client hands to makeAthunk: a straight line of
\* engine calls followed by a return expression over the values read.
Instr(op, x, y) == [op |-> op, x |-> x, y |-> y]
Body(code, ret) == [code |-> code, ret |-> ret]

\* adaptonRef's thunk: self => self.result
RefBody == Body(<< >>, "self")
\* () => adaptonForce(x) + 3
AddBody(x) == Body(<<Instr("force", x, 0)>>, "plus3")
\* () => adaptonForce(x) + adaptonForce(y)
SumBody(x, y) == Body(<<Instr("force", x, 0), Instr("force", y, 0)>>, "sum")
\* () => adaptonForce(x) - adaptonForce(y)
SubBody(x, y) == Body(<<Instr("force", x, 0), Instr("force", y, 0)>>, "diff")
\* () => adaptonForce(c) ? adaptonForce(x) : adaptonForce(y)
\* and, with y = 0, () => adaptonForce(c) || adaptonForce(x) read the other way:
\* () => { const v = adaptonForce(c); return v ? adaptonForce(x) : v }
CondBody(c, x, y) == Body(<<Instr("force", c, 0), Instr("forceIf", x, y)>>, "last")
\* a => { addEdge(a, x); addEdge(a, y); return adaptonCompute(x) - adaptonCompute(y) }
MicroBody(x, y) ==
    Body(<<Instr("addEdge", x, 0), Instr("addEdge", y, 0),
           Instr("compute", x, 0), Instr("compute", y, 0)>>, "diff")
\* () => { adaptonRefSet(x, v); return 0 }
SetBody(x, v) == Body(<<Instr("refset", x, v)>>, "zero")
\* () => { const v = adaptonForce(x); if (v) throw new Error(); return v }
ThrowBody(x) == Body(<<Instr("force", x, 0), Instr("throwIf", 0, 0)>>, "last")

\* ------------------------------------------------------------------- state
VARIABLES
    nodes,              \* the adaptons: id -> [thunk, result, sub, super, clean]
    currentlyAdapting,  \* the node being forced, 0 for null
    stack,              \* the call stack, innermost frame last
    ret,                \* the value the last returned call returned
    call,               \* the top-level call in progress, or the last one
    outcome,            \* "idle", "running", "returned" or "threw"
    invoked,            \* node -> times its thunk was invoked in this top-level call
    pre,                \* nodes as they were when the top-level call started
    walked,             \* node -> times adaptonDirty walked its super set in this call
    forced              \* node -> the nodes its thunk forced during its latest run

vars == <<nodes, currentlyAdapting, stack, ret, call, outcome, invoked, pre, walked,
          forced>>

Ids == DOMAIN nodes
Null == 0

\* The Adapton object makeAthunk builds.
Adapton(thunk) ==
    [thunk |-> thunk, result |-> Undefined, sub |-> << >>, super |-> << >>,
     clean |-> FALSE]

Frame(fn, a) ==
    [fn |-> fn, node |-> a, pc |-> "start", ip |-> 1, vals |-> << >>,
     wait |-> FALSE, prev |-> Null, todo |-> << >>, val |-> Undefined]

Quiescent == stack = << >>
Top == stack[Len(stack)]
Below == SubSeq(stack, 1, Len(stack) - 1)
Running(fn, pc) == stack # << >> /\ Top.fn = fn /\ Top.pc = pc

NoCall == [op |-> "none", node |-> 0, arg |-> 0]

Init ==
    /\ nodes = << >>
    /\ currentlyAdapting = Null
    /\ stack = << >>
    /\ ret = Undefined
    /\ call = NoCall
    /\ outcome = "idle"
    /\ invoked = << >>
    /\ pre = << >>
    /\ walked = << >>
    /\ forced = << >>


\* ------------------------------------------------------------ Edge Manager
\* Mutant of AddEdgeOp: subComp.super.add(superComp) is forgotten.
AddEdgeOpSubOnly(ns, superComp, subComp) ==
    [ns EXCEPT ![superComp].sub = SetAdd(@, subComp)]

\* Mutant of AddEdgeOp: the sets are arrays, add is a push.
AddEdgeOpPushed(ns, superComp, subComp) ==
    LET n1 == [ns EXCEPT ![superComp].sub = Append(@, subComp)]
    IN  [n1 EXCEPT ![subComp].super = Append(@, superComp)]

AddEdgeOp(ns, superComp, subComp) ==
    LET n1 == [ns EXCEPT ![superComp].sub = SetAdd(@, subComp)]
    IN  [n1 EXCEPT ![subComp].super = SetAdd(@, superComp)]

\* Mutant of DeleteEdgeOp: subComp.super.delete(superComp) is forgotten.
DeleteEdgeOpSubOnly(ns, superComp, subComp) ==
    [ns EXCEPT ![superComp].sub = SetDelete(@, subComp)]

DeleteEdgeOp(ns, superComp, subComp) ==
    LET n1 == [ns EXCEPT ![superComp].sub = SetDelete(@, subComp)]
    IN  [n1 EXCEPT ![subComp].super = SetDelete(@, superComp)]

\* Mutant of DeleteSubs: the edges of the run before are kept.
DeleteSubsKept(ns, a) == ns

\* for (const x of a.sub) deleteEdge(a, x): a JavaScript Set iterator visits
\* every element when the one it stands on is deleted, so the loop empties a.sub.
RECURSIVE DeleteSubs(_, _)
DeleteSubs(ns, a) ==
    IF ns[a].sub = << >> THEN ns
    ELSE DeleteSubs(DeleteEdgeOp(ns, a, Head(ns[a].sub)), a)

\* ------------------------------------------------------------ call protocol
\* The adaptons an instruction names (the y of adaptonRefSet(x, y) is a value).
Targets(i) == IF i.op = "forceIf" THEN {i.x, i.y} ELSE {i.x}

\* Every adapton a thunk names exists: the client has built its graph.
Closed ==
    \A a \in Ids : \A k \in 1..Len(nodes[a].thunk.code) :
        Targets(nodes[a].thunk.code[k]) \subseteq Ids \cup {Null}

\* A top-level (client) call enters the engine on an empty stack.
StartCall(op, a, arg, frame) ==
    /\ Quiescent
    /\ Closed
    /\ stack' = <<frame>>
    /\ call' = [op |-> op, node |-> a, arg |-> arg]
    /\ outcome' = "running"
    /\ invoked' = [i \in Ids |-> 0]
    /\ walked' = [i \in Ids |-> 0]
    /\ pre' = nodes

\* The innermost call returns v to its caller.
Return(v) ==
    /\ stack' = Below
    /\ ret' = v
    /\ outcome' = IF Len(stack) = 1 THEN "returned" ELSE outcome

\* The innermost call calls fn(a) and waits for it.
Invoke(waiting, frame) ==
    /\ Len(stack) < MaxDepth
    /\ stack' = Below \o <<waiting, frame>>

\* ------------------------------------------------------------ adaptonCompute
\* Mutant of ComputeClean: a clean node is recomputed all the same.
ComputeCleanRecomputed ==
    /\ Running("compute", "start")
    /\ nodes[Top.node].clean
    /\ LET a == Top.node
       IN  /\ nodes' = DeleteSubs(nodes, a)
           /\ Invoke([Top EXCEPT !.pc = "thunk"], Frame("thunk", a))
           /\ invoked' = [invoked EXCEPT ![a] = @ + 1]
           /\ forced' = [forced EXCEPT ![a] = {}]
    /\ UNCHANGED <<currentlyAdapting, ret, call, outcome, pre, walked>>

\* if (a.clean) return a.result
ComputeClean ==
    /\ Running("compute", "start")
    /\ nodes[Top.node].clean
    /\ Return(nodes[Top.node].result)
    /\ UNCHANGED <<nodes, currentlyAdapting, call, invoked, pre, walked, forced>>

\* Mutant of ComputeDirty: a.clean = true is forgotten.
ComputeDirtyNotCleaned ==
    /\ Running("compute", "start")
    /\ ~nodes[Top.node].clean
    /\ LET a == Top.node
       IN  /\ nodes' = DeleteSubs(nodes, a)
           /\ Invoke([Top EXCEPT !.pc = "thunk"], Frame("thunk", a))
           /\ invoked' = [invoked EXCEPT ![a] = @ + 1]
           /\ forced' = [forced EXCEPT ![a] = {}]
    /\ UNCHANGED <<currentlyAdapting, ret, call, outcome, pre, walked>>

\* else: delete the sub edges, a.clean = true, call a.thunk()
ComputeDirty ==
    /\ Running("compute", "start")
    /\ ~nodes[Top.node].clean
    /\ LET a == Top.node
       IN  /\ nodes' = [DeleteSubs(nodes, a) EXCEPT ![a].clean = TRUE]
           /\ Invoke([Top EXCEPT !.pc = "thunk"], Frame("thunk", a))
           /\ invoked' = [invoked EXCEPT ![a] = @ + 1]
           /\ forced' = [forced EXCEPT ![a] = {}]
    /\ UNCHANGED <<currentlyAdapting, ret, call, outcome, pre, walked>>

\* Mutant of ComputeStore: the result is returned without the recursive call.
ComputeStoreReturned ==
    /\ Running("compute", "thunk")
    /\ nodes' = [nodes EXCEPT ![Top.node].result = ret]
    /\ Return(ret)
    /\ UNCHANGED <<currentlyAdapting, call, invoked, pre, walked, forced>>

\* Mutant of ComputeStore: the thunk's value is not stored.
ComputeStoreDropped ==
    /\ Running("compute", "thunk")
    /\ Invoke([Top EXCEPT !.pc = "again"], Frame("compute", Top.node))
    /\ UNCHANGED <<nodes, currentlyAdapting, ret, call, outcome, invoked, pre, walked, forced>>

\* a.result = <what a.thunk() returned>; then call adaptonCompute(a) again
ComputeStore ==
    /\ Running("compute", "thunk")
    /\ LET a == Top.node
       IN  /\ nodes' = [nodes EXCEPT ![a].result = ret]
           /\ Invoke([Top EXCEPT !.pc = "again"], Frame("compute", a))
    /\ UNCHANGED <<currentlyAdapting, ret, call, outcome, invoked, pre, walked, forced>>

\* return <what the recursive adaptonCompute(a) returned>
ComputeReturn ==
    /\ Running("compute", "again")
    /\ Return(ret)
    /\ UNCHANGED <<nodes, currentlyAdapting, call, invoked, pre, walked, forced>>

\* -------------------------------------------------------------- adaptonDirty
\* Mutant of DirtyShort: a dirty node's supercomputations are walked again.
DirtyShortWalks ==
    /\ Running("dirty", "start")
    /\ ~nodes[Top.node].clean
    /\ stack' = Below \o <<[Top EXCEPT !.pc = "loop", !.todo = nodes[Top.node].super]>>
    /\ UNCHANGED <<nodes, currentlyAdapting, ret, call, outcome, invoked, pre, forced>>
    /\ walked' = [walked EXCEPT ![Top.node] = @ + 1]

\* if (!a.clean) return
DirtyShort ==
    /\ Running("dirty", "start")
    /\ ~nodes[Top.node].clean
    /\ Return(Undefined)
    /\ UNCHANGED <<nodes, currentlyAdapting, call, invoked, pre, walked, forced>>

\* Mutant of DirtyMark: dirtying a node also drops the node's sub edges.
DirtyMarkDropsEdges ==
    /\ Running("dirty", "start")
    /\ nodes[Top.node].clean
    /\ LET a == Top.node
       IN  /\ nodes' = [DeleteSubs(nodes, a) EXCEPT ![a].clean = FALSE]
           /\ stack' = Below \o <<[Top EXCEPT !.pc = "loop", !.todo = nodes[a].super]>>
    /\ UNCHANGED <<currentlyAdapting, ret, call, outcome, invoked, pre, forced>>
    /\ walked' = [walked EXCEPT ![Top.node] = @ + 1]

\* Mutant of DirtyMark: the node is marked, its supercomputations are not.
DirtyMarkNotPropagated ==
    /\ Running("dirty", "start")
    /\ nodes[Top.node].clean
    /\ nodes' = [nodes EXCEPT ![Top.node].clean = FALSE]
    /\ stack' = Below \o <<[Top EXCEPT !.pc = "loop"]>>
    /\ UNCHANGED <<currentlyAdapting, ret, call, outcome, invoked, pre, forced>>
    /\ walked' = [walked EXCEPT ![Top.node] = @ + 1]

\* a.clean = false; start the loop over a.super (no callee changes a.super
\* while the loop runs, so the loop walks a.super as it is now)
DirtyMark ==
    /\ Running("dirty", "start")
    /\ nodes[Top.node].clean
    /\ LET a == Top.node
       IN  /\ nodes' = [nodes EXCEPT ![a].clean = FALSE]
           /\ stack' = Below \o <<[Top EXCEPT !.pc = "loop", !.todo = nodes[a].super]>>
    /\ UNCHANGED <<currentlyAdapting, ret, call, outcome, invoked, pre, forced>>
    /\ walked' = [walked EXCEPT ![Top.node] = @ + 1]

\* for (const x of a.super) adaptonDirty(x)
DirtyNext ==
    /\ Running("dirty", "loop")
    /\ Top.todo # << >>
    /\ Invoke([Top EXCEPT !.todo = Tail(@)], Frame("dirty", Head(Top.todo)))
    /\ UNCHANGED <<nodes, currentlyAdapting, ret, call, outcome, invoked, pre, walked, forced>>

\* the loop is over
DirtyDone ==
    /\ Running("dirty", "loop")
    /\ Top.todo = << >>
    /\ Return(Undefined)
    /\ UNCHANGED <<nodes, currentlyAdapting, call, invoked, pre, walked, forced>>

\* ------------------------------------------------------------- adaptonRefSet
\* a.result = val; call adaptonDirty(a)
RefSetStore ==
    /\ Running("refset", "start")
    /\ nodes' = [nodes EXCEPT ![Top.node].result = Top.val]
    /\ Invoke([Top EXCEPT !.pc = "dirty"], Frame("dirty", Top.node))
    /\ UNCHANGED <<currentlyAdapting, ret, call, outcome, invoked, pre, walked, forced>>

RefSetReturn ==
    /\ Running("refset", "dirty")
    /\ Return(Undefined)
    /\ UNCHANGED <<nodes, currentlyAdapting, call, invoked, pre, walked, forced>>

\* -------------------------------------------------------------- adaptonForce
\* prevAdapting = currentlyAdapting; currentlyAdapting = a; call adaptonCompute(a)
ForceEnter ==
    /\ Running("force", "start")
    /\ currentlyAdapting' = Top.node
    /\ Invoke([Top EXCEPT !.pc = "compute", !.prev = currentlyAdapting],
              Frame("compute", Top.node))
    /\ UNCHANGED <<nodes, ret, call, outcome, invoked, pre, walked, forced>>

\* Mutant of ForceExit: currentlyAdapting = prevAdapting is forgotten, the
\* context stays on the node forced.
ForceExitNotRestored ==
    /\ Running("force", "compute")
    /\ nodes' = AddEdgeOp(nodes, currentlyAdapting, Top.node)
    /\ Return(ret)
    /\ UNCHANGED <<currentlyAdapting, call, invoked, pre, walked, forced>>

\* Mutant of ForceExit: the edge to the forced node is not recorded.
ForceExitNoEdge ==
    /\ Running("force", "compute")
    /\ currentlyAdapting' = Top.prev
    /\ Return(ret)
    /\ UNCHANGED <<nodes, call, invoked, pre, walked, forced>>

\* currentlyAdapting = prevAdapting; if (currentlyAdapting) addEdge(currentlyAdapting, a);
\* return result
ForceExit ==
    /\ Running("force", "compute")
    /\ currentlyAdapting' = Top.prev
    /\ nodes' = IF Top.prev # Null THEN AddEdgeOp(nodes, Top.prev, Top.node) ELSE nodes
    /\ Return(ret)
    /\ UNCHANGED <<call, invoked, pre, walked, forced>>

\* --------------------------------------------------- a.thunk = () => thunk(a)
InThunk == stack # << >> /\ Top.fn = "thunk"
Code == nodes[Top.node].thunk.code
\* The values the thunk has read so far, the one just returned included.
Vals == IF Top.wait THEN Append(Top.vals, ret) ELSE Top.vals
AtInstr(ops) == InThunk /\ Top.ip <= Len(Code) /\ Code[Top.ip].op \in ops
Advance(wait) == [Top EXCEPT !.ip = @ + 1, !.vals = Vals, !.wait = wait]

\* The thunk's return expression over the values it read.
ThunkValue(a, vs) ==
    LET kind == nodes[a].thunk.ret
    IN  CASE kind = "self" -> nodes[a].result
          [] kind = "plus3" -> JsAdd(vs[1], Num(3))
          [] kind = "sum" -> JsAdd(vs[1], vs[2])
          [] kind = "diff" -> JsSub(vs[1], vs[2])
          [] kind = "last" -> vs[Len(vs)]
          [] kind = "zero" -> Num(0)

\* The node an instruction reads: x for adaptonForce(x) and adaptonCompute(x),
\* for v ? adaptonForce(x) : adaptonForce(y) the branch the value read last
\* selects (0: that branch forces nothing), and none for any other instruction.
ReadTarget(i, vs) ==
    CASE i.op \in {"force", "compute"} -> i.x
      [] i.op = "forceIf" -> IF Truthy(vs[Len(vs)]) THEN i.x ELSE i.y
      [] OTHER -> Null

\* the thunk calls adaptonForce(x)
ThunkForce ==
    /\ AtInstr({"force", "forceIf"})
    /\ LET x == ReadTarget(Code[Top.ip], Vals)
       IN  /\ x # Null
           /\ Invoke(Advance(TRUE), Frame("force", x))
           /\ forced' = [forced EXCEPT ![Top.node] = @ \cup {x}]
    /\ UNCHANGED <<nodes, currentlyAdapting, ret, call, outcome, invoked, pre, walked>>

\* v ? adaptonForce(x) : v with v falsy: the thunk forces nothing here
ThunkElse ==
    /\ AtInstr({"forceIf"})
    /\ ReadTarget(Code[Top.ip], Vals) = Null
    /\ stack' = Below \o <<Advance(FALSE)>>
    /\ UNCHANGED <<nodes, currentlyAdapting, ret, call, outcome, invoked, pre, walked, forced>>

\* the thunk calls adaptonCompute(x)
ThunkCompute ==
    /\ AtInstr({"compute"})
    /\ Invoke(Advance(TRUE), Frame("compute", Code[Top.ip].x))
    /\ UNCHANGED <<nodes, currentlyAdapting, ret, call, outcome, invoked, pre, walked, forced>>

\* the thunk calls adaptonRefSet(x, v)
ThunkRefSet ==
    /\ AtInstr({"refset"})
    /\ Invoke(Advance(FALSE),
              [Frame("refset", Code[Top.ip].x) EXCEPT !.val = Num(Code[Top.ip].y)])
    /\ UNCHANGED <<nodes, currentlyAdapting, ret, call, outcome, invoked, pre, walked, forced>>

\* the thunk calls addEdge(self, x)
ThunkAddEdge ==
    /\ AtInstr({"addEdge"})
    /\ nodes' = AddEdgeOp(nodes, Top.node, Code[Top.ip].x)
    /\ stack' = Below \o <<Advance(FALSE)>>
    /\ UNCHANGED <<currentlyAdapting, ret, call, outcome, invoked, pre, walked, forced>>

\* the thunk throws: the exception leaves every engine function on the stack
\* at the statement it was waiting in, and reaches the client
ThunkThrow ==
    /\ AtInstr({"throwIf"})
    /\ Truthy(Vals[Len(Vals)])
    /\ stack' = << >>
    /\ outcome' = "threw"
    /\ ret' = Thrown(Top.node)
    /\ UNCHANGED <<nodes, currentlyAdapting, call, invoked, pre, walked, forced>>

\* if (v) throw ...: v is falsy, the thunk goes on
ThunkNoThrow ==
    /\ AtInstr({"throwIf"})
    /\ ~Truthy(Vals[Len(Vals)])
    /\ stack' = Below \o <<Advance(FALSE)>>
    /\ UNCHANGED <<nodes, currentlyAdapting, ret, call, outcome, invoked, pre, walked, forced>>

\* the thunk returns its value
ThunkReturn ==
    /\ InThunk
    /\ Top.ip > Len(Code)
    /\ Return(ThunkValue(Top.node, Vals))
    /\ UNCHANGED <<nodes, currentlyAdapting, call, invoked, pre, walked, forced>>

\* -------------------------------------------------------------- the client
\* What a top-level operation that makes no calls leaves behind.
Atomic(op, a, arg) ==
    /\ Quiescent
    /\ call' = [op |-> op, node |-> a, arg |-> arg]
    /\ outcome' = "returned"
    /\ pre' = nodes
    /\ UNCHANGED <<currentlyAdapting, stack, ret>>

\* The client builds its adaptons first and then drives them: an adapton made
\* later is one made earlier and not yet touched.
Building == call.op \in {"none", "adaptonRef", "makeAthunk"}

CreateUpTo(max, op, adapton) ==
    /\ Building
    /\ Len(nodes) < max
    /\ Atomic(op, Len(nodes) + 1, 0)
    /\ nodes' = Append(nodes, adapton)
    /\ invoked' = [i \in 1..(Len(nodes) + 1) |-> 0]
    /\ walked' = [i \in 1..(Len(nodes) + 1) |-> 0]
    /\ forced' = Append(forced, {})

Create(op, adapton) == CreateUpTo(MaxNodes, op, adapton)

\* adaptonRef(val)
AdaptonRef ==
    \E v \in 0..MaxVal :
        Create("adaptonRef", [Adapton(RefBody) EXCEPT !.result = Num(v), !.clean = TRUE])

IsRef(a) == nodes[a].thunk = RefBody

\* Thunks that read the nodes made so far, through adaptonForce only.
ForceBodies ==
    LET old == DOMAIN nodes
    IN  {AddBody(x) : x \in old}
        \cup {SumBody(p[1], p[2]) : p \in {q \in old \X old : q[1] < q[2]}}
        \cup {CondBody(p[1], p[2], p[3]) :
                 p \in {q \in old \X old \X (old \cup {Null}) :
                          q[1] # q[2] /\ q[1] # q[3] /\ (q[3] = Null \/ q[2] < q[3])}}

\* makeAthunk(thunk), thunk pure and reading through adaptonForce
MakeAthunkForce == \E b \in ForceBodies : Create("makeAthunk", Adapton(b))

\* Thunks that add 3 to one of the nodes made so far.
AddBodies == {AddBody(x) : x \in DOMAIN nodes}

MakeAthunkAdd == \E b \in AddBodies : Create("makeAthunk", Adapton(b))

\* Micro-Adapton thunks over two of the refs made so far: they register their
\* own edges and read with adaptonCompute.
MicroBodies ==
    LET refs == {a \in DOMAIN nodes : nodes[a].thunk = RefBody}
    IN  {MicroBody(p[1], p[2]) : p \in {q \in refs \X refs : q[1] # q[2]}}

MakeAthunkMicro == \E b \in MicroBodies : Create("makeAthunk", Adapton(b))

\* Thunks that subtract two of the nodes made so far.
SubBodies ==
    LET old == DOMAIN nodes
    IN  {SubBody(p[1], p[2]) : p \in {q \in old \X old : q[1] # q[2]}}

MakeAthunkSub == \E b \in SubBodies : Create("makeAthunk", Adapton(b))

\* Thunks that throw when the node they force is truthy.
ThrowBodies == {ThrowBody(x) : x \in DOMAIN nodes}

MakeAthunkThrow == \E b \in ThrowBodies : Create("makeAthunk", Adapton(b))

\* Thunks that force any adapton of the client's, themselves and adaptons
\* made later included.
CycleBodies == {AddBody(x) : x \in 1..MaxNodes}

MakeAthunkCycle == \E b \in CycleBodies : Create("makeAthunk", Adapton(b))

\* Nested-force graphs: refs of value 0, and thunks that add 3 to one node or
\* add two of the nodes made so far.
AdaptonRefNest ==
    CreateUpTo(MaxNestNodes, "adaptonRef",
               [Adapton(RefBody) EXCEPT !.result = Num(0), !.clean = TRUE])

NestBodies ==
    LET old == DOMAIN nodes
    IN  {AddBody(x) : x \in old}
        \cup {SumBody(p[1], p[2]) : p \in {q \in old \X old : q[1] < q[2]}}

MakeAthunkNest ==
    \E b \in NestBodies : CreateUpTo(MaxNestNodes, "makeAthunk", Adapton(b))

\* Thunks that add, and thunks that write a ref cell made before them.
WriterBodies ==
    LET old == DOMAIN nodes
    IN  {AddBody(x) : x \in old}
        \cup {SumBody(p[1], p[2]) : p \in {q \in old \X old : q[1] < q[2]}}
        \cup {SetBody(p[1], p[2]) :
                 p \in {q \in old \X (0..MaxVal) : nodes[q[1]].thunk = RefBody}}

MakeAthunkWriter == \E b \in WriterBodies : Create("makeAthunk", Adapton(b))

\* adaptonRefSet(a, val) on a ref cell
CallRefSet ==
    \E a \in Ids, v \in 0..MaxVal :
        /\ IsRef(a)
        /\ StartCall("adaptonRefSet", a, v, [Frame("refset", a) EXCEPT !.val = Num(v)])
        /\ UNCHANGED <<nodes, currentlyAdapting, ret, forced>>

\* adaptonForce(a)
CallForce ==
    \E a \in Ids :
        /\ StartCall("adaptonForce", a, 0, Frame("force", a))
        /\ UNCHANGED <<nodes, currentlyAdapting, ret, forced>>

\* adaptonCompute(a)
CallCompute ==
    \E a \in Ids :
        /\ StartCall("adaptonCompute", a, 0, Frame("compute", a))
        /\ UNCHANGED <<nodes, currentlyAdapting, ret, forced>>

\* adaptonDirty(a)
CallDirty ==
    \E a \in Ids :
        /\ StartCall("adaptonDirty", a, 0, Frame("dirty", a))
        /\ UNCHANGED <<nodes, currentlyAdapting, ret, forced>>

\* addEdge(x, y)
CallAddEdge ==
    \E x \in Ids, y \in Ids :
        /\ Atomic("addEdge", x, y)
        /\ nodes' = AddEdgeOp(nodes, x, y)
        /\ invoked' = [i \in Ids |-> 0]
        /\ walked' = [i \in Ids |-> 0]
        /\ UNCHANGED forced

\* deleteEdge(x, y)
CallDeleteEdge ==
    \E x \in Ids, y \in Ids :
        /\ Atomic("deleteEdge", x, y)
        /\ nodes' = DeleteEdgeOp(nodes, x, y)
        /\ invoked' = [i \in Ids |-> 0]
        /\ walked' = [i \in Ids |-> 0]
        /\ UNCHANGED forced

\* ----------------------------------------------------------- specifications
Compute == ComputeClean \/ ComputeDirty \/ ComputeStore \/ ComputeReturn
Dirty == DirtyShort \/ DirtyMark \/ DirtyNext \/ DirtyDone
RefSet == RefSetStore \/ RefSetReturn
Force == ForceEnter \/ ForceExit

\* Mini-Adapton as its test drives it: refs, thunks that read through
\* adaptonForce, adaptonRefSet and top-level adaptonForce.
NextForce ==
    \/ AdaptonRef \/ MakeAthunkForce \/ CallRefSet \/ CallForce
    \/ Compute \/ Dirty \/ RefSet \/ Force
    \/ ThunkForce \/ ThunkElse \/ ThunkReturn

SpecForce == Init /\ [][NextForce]_vars

\* The same thunks read from the top level with adaptonCompute.
NextCompute ==
    \/ AdaptonRef \/ MakeAthunkForce \/ MakeAthunkSub \/ CallRefSet \/ CallCompute
    \/ Compute \/ Dirty \/ RefSet \/ Force
    \/ ThunkForce \/ ThunkElse \/ ThunkReturn

SpecCompute == Init /\ [][NextCompute]_vars

\* Micro-Adapton as its test drives it: refs, thunks that add their own edges
\* and read with adaptonCompute, adaptonRefSet and top-level adaptonCompute.
NextMicro ==
    \/ AdaptonRef \/ MakeAthunkMicro \/ CallRefSet \/ CallCompute
    \/ Compute \/ Dirty \/ RefSet
    \/ ThunkAddEdge \/ ThunkCompute \/ ThunkReturn

SpecMicro == Init /\ [][NextMicro]_vars

\* Nested forcing: graphs of up to MaxNestNodes adaptons, a thunk forcing a
\* thunk that forces a third node, and a sibling after it.
NextNest ==
    \/ AdaptonRefNest \/ MakeAthunkNest \/ CallRefSet \/ CallForce
    \/ Compute \/ Dirty \/ RefSet \/ Force
    \/ ThunkForce \/ ThunkReturn

SpecNest == Init /\ [][NextNest]_vars

\* Dirtying waves on acyclic graphs: the graphs of SpecForce, with
\* adaptonDirty called from the top level on any node.
EngineDirty ==
    \/ Compute \/ Dirty \/ RefSet \/ Force
    \/ ThunkForce \/ ThunkElse \/ ThunkReturn

NextDirty ==
    \/ AdaptonRef \/ MakeAthunkForce \/ CallRefSet \/ CallForce \/ CallDirty
    \/ EngineDirty

SpecDirty == Init /\ [][NextDirty]_vars

\* The engine is synchronous code on one thread: a call in progress goes on.
SpecDirtyFair == SpecDirty /\ WF_vars(EngineDirty)

\* Thunks that write a ref cell while another thunk that read it is running.
NextWriter ==
    \/ AdaptonRef \/ MakeAthunkWriter \/ CallRefSet \/ CallForce
    \/ Compute \/ Dirty \/ RefSet \/ Force
    \/ ThunkForce \/ ThunkRefSet \/ ThunkReturn

SpecWriter == Init /\ [][NextWriter]_vars

\* Thunks that may throw.
NextThrow ==
    \/ AdaptonRef \/ MakeAthunkAdd \/ MakeAthunkThrow
    \/ CallRefSet \/ CallForce \/ CallCompute
    \/ Compute \/ Dirty \/ RefSet \/ Force
    \/ ThunkForce \/ ThunkThrow \/ ThunkNoThrow \/ ThunkReturn

SpecThrow == Init /\ [][NextThrow]_vars

\* Thunks that force themselves or each other.
EngineCycle == Compute \/ Dirty \/ Force \/ ThunkForce \/ ThunkReturn

NextCycle ==
    \/ AdaptonRef \/ MakeAthunkCycle
    \/ CallForce \/ CallCompute \/ CallDirty
    \/ EngineCycle

SpecCycle == Init /\ [][NextCycle]_vars

\* The engine is synchronous code on one thread: a call in progress goes on.
SpecCycleFair == SpecCycle /\ WF_vars(EngineCycle)

\* Every operation of the engine, the Edge Manager's included, on a graph of
\* at most MaxEdgeNodes adaptons.
FewNodes == Len(nodes) < MaxEdgeNodes

Next ==
    \/ (FewNodes /\ AdaptonRef)
    \/ (FewNodes /\ MakeAthunkAdd)
    \/ (FewNodes /\ MakeAthunkThrow)
    \/ CallRefSet \/ CallDirty \/ CallCompute \/ CallForce
    \/ CallAddEdge \/ CallDeleteEdge
    \/ Compute \/ Dirty \/ RefSet \/ Force
    \/ ThunkForce \/ ThunkThrow \/ ThunkNoThrow \/ ThunkReturn

Spec == Init /\ [][Next]_vars

\* ------------------------------------------------------- claims: SpecForce
Returned(op) == Quiescent /\ outcome = "returned" /\ call.op = op

\* A fresh, non-memoized evaluation of a's thunk over the current ref values:
\* every read evaluates the node read, nothing is cached.
RECURSIVE FreshRun(_, _, _)
FreshRun(a, ip, vs) ==
    LET code == nodes[a].thunk.code
        x == ReadTarget(code[ip], vs)
    IN  IF ip > Len(code) THEN ThunkValue(a, vs)
        ELSE IF x = Null THEN FreshRun(a, ip + 1, vs)
        ELSE FreshRun(a, ip + 1, Append(vs, FreshRun(x, 1, << >>)))
Fresh(a) == FreshRun(a, 1, << >>)

\* The nodes reachable from the nodes of S along super (dependents) edges.
RECURSIVE SuperClosure(_, _)
SuperClosure(S, ns) ==
    LET T == S \cup UNION {Range(ns[m].super) : m \in S}
    IN  IF T = S THEN S ELSE SuperClosure(T, ns)

\* C1: a top-level adaptonForce(n), after any sequence of adaptonRefSet and
\* adaptonForce calls on an acyclic graph of refs and pure force-only thunks,
\* returns what a fresh evaluation of n over the current ref values gives.
C1_ForceReturnsFresh ==
    Returned("adaptonForce") => ret = Fresh(call.node)

\* C1 witness: a force recomputed a thunk that reads another thunk and got a
\* value other than the one cached before the call.
C1_Witness ==
    /\ Returned("adaptonForce")
    /\ nodes[call.node].thunk.ret \in {"sum", "plus3"}
    /\ \E x \in Range(nodes[call.node].sub) : ~IsRef(x)
    /\ pre[call.node].result.t = "num"
    /\ ret # pre[call.node].result
    /\ ret = Fresh(call.node)

\* C6: when adaptonRefSet(r, v) on a ref r has returned, r and every node
\* reachable from r along super edges is dirty, and every other node has the
\* clean flag it had before the call.
C6_TransitiveDirtying ==
    Returned("adaptonRefSet") =>
        \A m \in Ids :
            IF m \in SuperClosure({call.node}, nodes)
            THEN ~nodes[m].clean
            ELSE nodes[m].clean = pre[m].clean

\* C6 witness: the ref set had a clean dependent, which is dirty now, and
\* an unrelated node stayed clean.
C6_Witness ==
    /\ Returned("adaptonRefSet")
    /\ \E m \in Range(nodes[call.node].super) : pre[m].clean /\ ~nodes[m].clean
    /\ \E m \in Ids \ SuperClosure({call.node}, nodes) : nodes[m].clean

\* C6 witness of the other case: the ref set was dirty before the call and
\* has a dependent.
C6_WitnessDirtyLeaf ==
    /\ Returned("adaptonRefSet")
    /\ ~pre[call.node].clean
    /\ nodes[call.node].super # << >>

\* C7: after a top-level adaptonForce(n) that re-ran n's thunk, n.sub is
\* exactly the set of nodes the thunk forced during that run, and n is in the
\* super set of no other node.
C7_DependenciesOfLatestRun ==
    (Returned("adaptonForce") /\ invoked[call.node] > 0) =>
        LET n == call.node
        IN  /\ Range(nodes[n].sub) = forced[n]
            /\ \A m \in Ids \ forced[n] : n \notin Range(nodes[m].super)

\* C7 witness: the re-run dropped a node the thunk had forced on its run
\* before.
C7_Witness ==
    /\ Returned("adaptonForce")
    /\ invoked[call.node] > 0
    /\ \E m \in Range(pre[call.node].sub) :
          /\ m \notin forced[call.node]
          /\ call.node \in Range(pre[m].super)
          /\ call.node \notin Range(nodes[m].super)

\* C8: during a top-level adaptonForce, only thunks of nodes that were dirty
\* when the call started are invoked, each at most once.
C8_SelectiveRecomputation ==
    (call.op = "adaptonForce") =>
        \A m \in Ids : invoked[m] <= 1 /\ (invoked[m] > 0 => ~pre[m].clean)

\* C8 witness: a force after an adaptonRefSet re-ran, just once, a ref that
\* the forced node reaches along two paths.
C8_Witness ==
    /\ Returned("adaptonForce")
    /\ \E m \in Ids, r \in Ids :
          /\ invoked[m] = 1 /\ invoked[r] = 1 /\ IsRef(r)
          /\ pre[r].super # << >>
          /\ r \in Range(nodes[m].sub)
          /\ \E x \in Range(nodes[m].sub) : ~IsRef(x) /\ r \in Range(nodes[x].sub)

\* C8 witness of the other case: the force ran a dirty thunk that reads a
\* clean thunk, and did not invoke the clean one.
C8_WitnessCleanSkipped ==
    /\ Returned("adaptonForce")
    /\ invoked[call.node] = 1
    /\ \E x \in Range(nodes[call.node].sub) :
          ~IsRef(x) /\ pre[x].clean /\ invoked[x] = 0

\* ----------------------------------------------------- claims: SpecCompute
\* The nodes a's thunk names.
Reads(a) ==
    UNION {Targets(nodes[a].thunk.code[k]) : k \in 1..Len(nodes[a].thunk.code)}
        \ {Null}

\* a is a thunk that reads refs, and only refs.
ReadsRefs(a) == Reads(a) # {} /\ \A x \in Reads(a) : IsRef(x)

\* C2 as stated: a top-level adaptonCompute(a) on a thunk that reads refs
\* through adaptonForce returns the fresh value, also after adaptonRefSet
\* calls on those refs.
C2_ComputeReturnsFresh ==
    (Returned("adaptonCompute") /\ ReadsRefs(call.node)) => ret = Fresh(call.node)

\* No thunk names a: a's thunk runs only when the client reads a.
ReadByNone(a) == \A m \in Ids : a \notin Reads(m)

\* C2 amended: a top-level adaptonCompute(a) on such a thunk returns the fresh
\* value when a is dirty and a's cached result when a is clean; when no other
\* thunk forces a, the call leaves a clean with no edge to the refs it forced,
\* whatever adaptonRefSet did to them.
C2_ComputeRecordsNoEdge ==
    (Returned("adaptonCompute") /\ ReadsRefs(call.node)) =>
        LET a == call.node
        IN  /\ ret = IF pre[a].clean THEN pre[a].result ELSE Fresh(a)
            /\ nodes[a].clean
            /\ ReadByNone(a) =>
                  /\ nodes[a].sub = << >>
                  /\ \A r \in Reads(a) : a \notin Range(nodes[r].super)

\* C2 witness: adaptonCompute(a) returned a's cached result after an
\* adaptonRefSet on a ref a reads had changed a's fresh value.
C2_Witness ==
    /\ Returned("adaptonCompute")
    /\ ReadsRefs(call.node)
    /\ nodes[call.node].thunk.ret = "diff"
    /\ ReadByNone(call.node)
    /\ pre[call.node].clean
    /\ ret = pre[call.node].result
    /\ ret # Fresh(call.node)

\* ------------------------------------------------------- claims: SpecMicro
\* C3: a top-level adaptonCompute on a thunk that registers its own edges
\* with addEdge and reads its refs with adaptonCompute returns the value of
\* its computation over the current ref values, after any adaptonRefSet calls.
C3_MicroComputeReturnsFresh ==
    Returned("adaptonCompute") => ret = Fresh(call.node)

\* C3 witness: the thunk was recomputed after an adaptonRefSet and returned a
\* value other than the one cached before.
C3_Witness ==
    /\ Returned("adaptonCompute")
    /\ nodes[call.node].thunk.ret = "diff"
    /\ pre[call.node].result.t = "num"
    /\ ret # pre[call.node].result
    /\ ret = Fresh(call.node)

\* ------------------------------------------------------------ claims: Spec
\* C4: whenever no engine call is in progress, y is in x.sub exactly when x
\* is in y.super, for all adaptons x and y.
C4_EdgeSymmetry ==
    Quiescent =>
        \A x \in Ids, y \in Ids :
            (y \in Range(nodes[x].sub)) <=> (x \in Range(nodes[y].super))

\* C4 witness: adaptonCompute has removed the edges of a node that had two,
\* one of them to itself, and the other node still holds an edge.
C4_Witness ==
    /\ Returned("adaptonCompute")
    /\ invoked[call.node] > 0
    /\ Len(pre[call.node].sub) = 2
    /\ nodes[call.node].sub = << >>
    /\ \E x \in Ids \ {call.node} : nodes[x].sub # << >>

\* C5: adaptonCompute on a clean node returns the node's cached result
\* without invoking any thunk and without changing any node.
C5_MemoizationFastPath ==
    [][(Running("compute", "start") /\ nodes[Top.node].clean) =>
          /\ stack' = Below
          /\ ret' = nodes[Top.node].result
          /\ nodes' = nodes
          /\ invoked' = invoked]_vars

\* C5 witness: inside a thunk, adaptonForce has just got the cached result of
\* a node that was clean from adaptonCompute, and the node's thunk did not run.
C5_Witness ==
    /\ Len(stack) > 1
    /\ Top.fn = "force" /\ Top.pc = "compute"
    /\ pre[Top.node].clean
    /\ invoked[Top.node] = 0
    /\ ret = nodes[Top.node].result
    /\ ret.t = "num"

\* ------------------------------------------------------- claims: SpecThrow
\* C9: when the thunk of a dirty node n throws, the exception reaches the
\* client and n is left clean with the cached result it had before the call;
\* the next adaptonCompute(n) returns that result without invoking a thunk.
C9_ThrowLeavesCleanAndStale ==
    /\ [](outcome = "threw" =>
            /\ Quiescent
            /\ ~pre[ret.v].clean
            /\ nodes[ret.v].clean
            /\ nodes[ret.v].result = pre[ret.v].result)
    /\ [][(/\ ret.t = "thrown"
           /\ outcome = "running"
           /\ call.op = "adaptonCompute"
           /\ call.node = ret.v) =>
              /\ outcome' = "returned"
              /\ ret' = pre[call.node].result
              /\ invoked' = invoked
              /\ nodes' = nodes]_vars

\* C9 witness: the thunk that threw belongs to a node that had been computed
\* before, so that the result it keeps is a stale number.
C9_Witness ==
    /\ outcome = "threw"
    /\ pre[ret.v].result.t = "num"
    /\ nodes[ret.v].clean
    /\ nodes[ret.v].result = pre[ret.v].result

\* C9 witness of the next read: adaptonCompute(n) has been called right after
\* n's thunk threw.
C9_WitnessNextCompute ==
    /\ ret.t = "thrown"
    /\ outcome = "running"
    /\ call.op = "adaptonCompute"
    /\ call.node = ret.v
    /\ nodes[ret.v].result.t = "num"

\* ------------------------------------------------------- claims: SpecCycle
\* The nodes a's thunk reads, directly or through the thunks of those.
RECURSIVE ReadClosure(_)
ReadClosure(S) ==
    LET T == S \cup UNION {Reads(m) : m \in S}
    IN  IF T = S THEN S ELSE ReadClosure(T)

\* a's thunk transitively forces a.
ForcesItself(a) == a \in ReadClosure(Reads(a))

\* a's dependents relation, as it was when the call started, has a cycle
\* through a.
OnSuperCycle(a) == a \in SuperClosure(Range(pre[a].super), pre)

\* C10 as stated: adaptonCompute or adaptonForce on a dirty node whose thunk
\* transitively forces the node never returns, and neither does adaptonDirty
\* on a clean node on a cycle of dependents.
C10_CycleNeverReturns ==
    ~(/\ outcome = "returned"
      /\ \/ /\ call.op \in {"adaptonCompute", "adaptonForce"}
            /\ ~pre[call.node].clean
            /\ ForcesItself(call.node)
         \/ /\ call.op = "adaptonDirty"
            /\ pre[call.node].clean
            /\ OnSuperCycle(call.node))

\* C10 amended: every call returns, on cyclic graphs too: the node is marked
\* clean before its thunk runs, so the thunk's force of the node itself takes
\* the fast path, and adaptonDirty stops at a node it has marked already.
C10_EveryCallReturns == (outcome = "running") ~> (outcome = "returned")

\* C10 witness: adaptonForce returned on a dirty node whose thunk forces the
\* node itself through another thunk.
C10_Witness ==
    /\ Returned("adaptonForce")
    /\ ~pre[call.node].clean
    /\ ForcesItself(call.node)
    /\ call.node \notin Reads(call.node)
    /\ invoked[call.node] = 1

\* C10 witness of the other case: adaptonDirty returned on a clean node that
\* is its own dependent.
C10_WitnessDirty ==
    /\ Returned("adaptonDirty")
    /\ pre[call.node].clean
    /\ OnSuperCycle(call.node)

\* -------------------------------------------------------- claims: SpecNest
\* C11: adaptonForce restores the context it found: a thunk that runs is the
\* context before and after each adaptonForce it calls, and the context is
\* null between top-level calls.  So when a top-level adaptonForce returns,
\* each node whose thunk ran has edges to exactly the nodes its own thunk
\* forced, every other node keeps its edges, and the node forced from the
\* top level, where the context is null, has got no new dependent.
C11_NestedForceThreading ==
    /\ InThunk => currentlyAdapting = Top.node
    /\ Quiescent => currentlyAdapting = Null
    /\ Returned("adaptonForce") =>
          /\ \A m \in Ids :
                IF invoked[m] > 0
                THEN Range(nodes[m].sub) = forced[m]
                ELSE nodes[m].sub = pre[m].sub
          /\ \A m \in Ids, x \in Ids :
                (x \in Range(nodes[m].sub)) <=> (m \in Range(nodes[x].super))
          /\ nodes[call.node].super = pre[call.node].super

\* C11 witness: adaptonForce(A) ran A, which forced B and then D, and B,
\* which forced C; the edges are A->B, A->D and B->C, and A has none to C.
C11_Witness ==
    /\ Returned("adaptonForce")
    /\ \E B \in Ids, C \in Ids, D \in Ids :
          /\ Cardinality({call.node, B, C, D}) = 4
          /\ invoked[call.node] = 1 /\ invoked[B] = 1
          /\ forced[call.node] = {B, D}
          /\ forced[B] = {C}
          /\ nodes[call.node].sub = <<B, D>>
          /\ nodes[B].sub = <<C>>
          /\ call.node \notin Range(nodes[C].super)
          /\ nodes[call.node].super = << >>

\* ------------------------------------------------- claims: Spec, invalidation
Invalidating == call.op \in {"adaptonDirty", "adaptonRefSet"}

\* C12: from the start of a top-level adaptonDirty(n) or adaptonRefSet(n, v)
\* to the next call, no thunk is invoked, no sub or super set changes, no
\* result changes but n's, which adaptonRefSet overwrites with v, clean flags
\* only go from true to false, and no step of the call changes
\* currentlyAdapting.
C12_PureInvalidation ==
    /\ [](Invalidating =>
            /\ \A k \in 1..Len(stack) : stack[k].fn \in {"dirty", "refset"}
            /\ \A m \in Ids :
                  /\ invoked[m] = 0
                  /\ nodes[m].sub = pre[m].sub
                  /\ nodes[m].super = pre[m].super
                  /\ nodes[m].clean => pre[m].clean
                  /\ \/ nodes[m].result = pre[m].result
                     \/ /\ call.op = "adaptonRefSet"
                        /\ m = call.node
                        /\ nodes[m].result = Num(call.arg)
            /\ Returned("adaptonRefSet") => nodes[call.node].result = Num(call.arg))
    /\ [][(call'.op \in {"adaptonDirty", "adaptonRefSet"}) =>
              currentlyAdapting' = currentlyAdapting]_vars

\* C12 witness: adaptonDirty(n), called while the context is not null, has
\* dirtied n and a dependent of n, both clean before, and both keep their
\* edges and results.
C12_Witness ==
    /\ Returned("adaptonDirty")
    /\ currentlyAdapting # Null
    /\ pre[call.node].clean /\ ~nodes[call.node].clean
    /\ \E m \in Range(nodes[call.node].super) :
          /\ m # call.node
          /\ pre[m].clean /\ ~nodes[m].clean
          /\ nodes[m].sub # << >>
          /\ nodes[m].result.t \in {"num", "NaN"}
          /\ nodes[m].result = pre[m].result

\* C12 witness of adaptonRefSet: the ref has a new result, its dependent is
\* dirty and keeps the result computed from the old one.
C12_WitnessRefSet ==
    /\ Returned("adaptonRefSet")
    /\ nodes[call.node].result # pre[call.node].result
    /\ \E m \in Range(nodes[call.node].super) :
          /\ pre[m].clean /\ ~nodes[m].clean
          /\ nodes[m].result.t = "num"
          /\ nodes[m].result = pre[m].result

\* ------------------------------------------------------- claims: SpecDirty
\* C13: adaptonDirty on a node that is dirty returns at once and changes
\* nothing; on an acyclic graph every top-level adaptonDirty and every
\* adaptonRefSet returns, and within the call each node has its clean flag
\* cleared and its super set walked at most once, also when the node is
\* reached along two paths.
C13_DirtyShortCircuitTerminates ==
    /\ [][(Running("dirty", "start") /\ ~nodes[Top.node].clean) =>
              /\ stack' = Below
              /\ nodes' = nodes
              /\ walked' = walked
              /\ currentlyAdapting' = currentlyAdapting]_vars
    /\ [](Invalidating =>
            \A m \in Ids :
                /\ walked[m] <= 1
                /\ walked[m] = 1 <=> (pre[m].clean /\ ~nodes[m].clean))
    /\ (Invalidating /\ outcome = "running") ~> (outcome = "returned")

\* C13 witness: adaptonDirty(n) returned on a diamond: m depends on n
\* directly and through x, all three were clean, and each was walked once.
C13_Witness ==
    /\ Returned("adaptonDirty")
    /\ LET n == call.node
       IN  \E x \in Range(nodes[n].super), m \in Range(nodes[n].super) :
               /\ Cardinality({n, x, m}) = 3
               /\ m \in Range(nodes[x].super)
               /\ pre[n].clean /\ pre[x].clean /\ pre[m].clean
               /\ walked[n] = 1 /\ walked[x] = 1 /\ walked[m] = 1

\* C13 witness of the short-circuit: adaptonDirty returned on a node that
\* was dirty and has a dependent, and walked nothing.
C13_WitnessShortCircuit ==
    /\ Returned("adaptonDirty")
    /\ ~pre[call.node].clean
    /\ nodes = pre
    /\ nodes[call.node].super # << >>
    /\ \A m \in Ids : walked[m] = 0

\* -------------------------------------------------- claims: Spec, Edge Manager
HasEdge(ns, x, y) == y \in Range(ns[x].sub) /\ x \in Range(ns[y].super)
NoEdge(ns, x, y) == y \notin Range(ns[x].sub) /\ x \notin Range(ns[y].super)
EdgeCall == call.op \in {"addEdge", "deleteEdge"}

\* C14: addEdge(x, y) on an edge that is there, and addEdge applied twice,
\* leave what one addEdge leaves; deleteEdge(x, y) on an edge that is not
\* there changes nothing; deleteEdge(x, y) right after the addEdge(x, y) that
\* made the edge gives back the sets as they were; and neither changes a
\* clean flag or a result, invokes a thunk or throws.
C14_EdgeManagerIdempotent ==
    /\ [](Quiescent =>
            \A x \in Ids, y \in Ids :
                /\ AddEdgeOp(AddEdgeOp(nodes, x, y), x, y) = AddEdgeOp(nodes, x, y)
                /\ HasEdge(nodes, x, y) => AddEdgeOp(nodes, x, y) = nodes
                /\ NoEdge(nodes, x, y) => DeleteEdgeOp(nodes, x, y) = nodes
                /\ NoEdge(nodes, x, y) =>
                      DeleteEdgeOp(AddEdgeOp(nodes, x, y), x, y) = nodes)
    /\ [](EdgeCall =>
            /\ Quiescent /\ outcome = "returned"
            /\ \A m \in Ids :
                  /\ invoked[m] = 0
                  /\ nodes[m].clean = pre[m].clean
                  /\ nodes[m].result = pre[m].result
            /\ (call.op = "addEdge" /\ HasEdge(pre, call.node, call.arg)) => nodes = pre
            /\ (call.op = "deleteEdge" /\ NoEdge(pre, call.node, call.arg)) => nodes = pre)
    /\ [][(/\ call.op = "addEdge"
           /\ NoEdge(pre, call.node, call.arg)
           /\ call'.op = "deleteEdge"
           /\ call'.node = call.node /\ call'.arg = call.arg) => nodes' = pre]_vars

\* C14 witness: addEdge(x, y) was applied to an edge x -> y that was there,
\* between two nodes that hold other edges and a computed result.
C14_Witness ==
    /\ call.op = "addEdge"
    /\ call.node # call.arg
    /\ HasEdge(pre, call.node, call.arg)
    /\ Len(pre[call.node].sub) = 2
    /\ nodes[call.node].clean /\ nodes[call.node].result.t = "num"
    /\ nodes = pre

\* C14 witness of deleteEdge: it was applied to an edge that was not there,
\* on a node that has another edge.
C14_WitnessDeleteAbsent ==
    /\ call.op = "deleteEdge"
    /\ NoEdge(pre, call.node, call.arg)
    /\ pre[call.node].sub # << >>
    /\ nodes = pre

\* C14 witness of deleteEdge after addEdge: the edge x -> y is gone and the
\* other edge of x is kept.
C14_WitnessDeleted ==
    /\ call.op = "deleteEdge"
    /\ HasEdge(pre, call.node, call.arg)
    /\ pre[call.node].sub[Len(pre[call.node].sub)] = call.arg
    /\ NoEdge(nodes, call.node, call.arg)
    /\ nodes[call.node].sub # << >>

\* ------------------------------------------------------ claims: SpecWriter
\* a's thunk has just been invoked and has not taken a step.
Invoked(a) == InThunk /\ Top.node = a /\ Top.ip = 1 /\ ~Top.wait

\* a's thunk is running: it is on the stack.
OnStack(a) == \E k \in 1..Len(stack) : stack[k].fn = "thunk" /\ stack[k].node = a

\* C15: the step of adaptonCompute that invokes the thunk of a dirty node n
\* has removed n from the super set of each node of n.sub, emptied n.sub and
\* set n.clean; when the thunk starts n is in no super set at all; and the
\* only step that clears a clean flag, while a thunk runs or not, is
\* adaptonDirty on that very node.
C15_CleanAndUnlinkedBeforeThunk ==
    /\ [][(Running("compute", "start") /\ ~nodes[Top.node].clean) =>
              LET n == Top.node
              IN  /\ \A x \in Range(nodes[n].sub) : n \notin Range(nodes'[x].super)
                  /\ nodes'[n].sub = << >>
                  /\ nodes'[n].clean
                  /\ stack'[Len(stack')].fn = "thunk"
                  /\ stack'[Len(stack')].node = n
                  /\ invoked'[n] = invoked[n] + 1]_vars
    /\ [](\A n \in Ids : Invoked(n) =>
            /\ nodes[n].sub = << >>
            /\ nodes[n].clean
            /\ \A m \in Ids : n \notin Range(nodes[m].super))
    /\ [][\A m \in Ids : (nodes[m].clean /\ ~nodes'[m].clean) =>
              (Running("dirty", "start") /\ Top.node = m)]_vars

\* C15 witness: the thunk of a node that had two dependencies has just been
\* invoked again; the node is clean, its sub set is empty and neither of the
\* two has it as a dependent.
C15_Witness ==
    \E n \in Ids :
        /\ Invoked(n)
        /\ Len(pre[n].sub) = 2
        /\ \A x \in Range(pre[n].sub) :
              n \in Range(pre[x].super) /\ n \notin Range(nodes[x].super)
        /\ nodes[n].sub = << >>
        /\ nodes[n].clean /\ ~pre[n].clean

\* C15 witness of the second part: a node is dirty while its thunk runs,
\* adaptonDirty having reached it from a ref the thunk forced.
C15_WitnessDirtiedWhileRunning ==
    \E n \in Ids :
        /\ OnStack(n)
        /\ ~nodes[n].clean
        /\ walked[n] = 1
        /\ Top.fn = "dirty" /\ Top.node = n

\* The recursive adaptonCompute(a) of line 59 is about to check a.clean.
Recheck ==
    /\ Running("compute", "start")
    /\ Len(stack) >= 2
    /\ stack[Len(stack) - 1].fn = "compute"
    /\ stack[Len(stack) - 1].pc = "again"

\* C16: the recursive adaptonCompute(n) returns n.result without invoking a
\* thunk when n is still clean, and invokes n's thunk again when n was
\* dirtied during the run; a top-level adaptonForce(n) returns with n clean,
\* its value being n.result and what n's thunk gives over the current refs;
\* the thunk of a node that was dirty at the call has run once plus once for
\* each time adaptonDirty reached the node in the call, so exactly once when
\* it was not dirtied.
C16_SelfCorrectingRecursion ==
    /\ [][Recheck =>
              LET n == Top.node
              IN  IF nodes[n].clean
                  THEN /\ stack' = Below
                       /\ ret' = nodes[n].result
                       /\ nodes' = nodes
                       /\ invoked' = invoked
                  ELSE /\ invoked'[n] = invoked[n] + 1
                       /\ nodes'[n].clean
                       /\ stack'[Len(stack')].fn = "thunk"
                       /\ stack'[Len(stack')].node = n]_vars
    /\ [](Returned("adaptonForce") =>
            LET n == call.node
            IN  /\ nodes[n].clean
                /\ ret = nodes[n].result
                /\ ret = Fresh(n)
                /\ invoked[n] = IF pre[n].clean THEN 0 ELSE 1 + walked[n])

\* C16 witness: adaptonForce(n) returned; n forced the ref x and then b,
\* whose thunk wrote x and so dirtied n; n's thunk ran twice and the value
\* returned comes from what b wrote, not from what x held at the call.
C16_Witness ==
    /\ Returned("adaptonForce")
    /\ LET n == call.node
       IN  /\ invoked[n] = 2 /\ walked[n] = 1
           /\ nodes[n].clean
           /\ \E x \in Ids, b \in Ids :
                 /\ nodes[n].thunk = SumBody(x, b)
                 /\ IsRef(x)
                 /\ nodes[b].thunk.ret = "zero"
                 /\ nodes[b].thunk.code[1].x = x
                 /\ invoked[b] = 1
                 /\ nodes[x].result # pre[x].result
                 /\ ret = nodes[x].result

\* C16 witness of the common case: the recursive call found n clean after
\* the only run of its thunk, which forced another thunk.
C16_WitnessCommonCase ==
    /\ Returned("adaptonForce")
    /\ ~pre[call.node].clean
    /\ invoked[call.node] = 1 /\ walked[call.node] = 0
    /\ \E b \in Range(nodes[call.node].sub) : ~IsRef(b) /\ invoked[b] = 1

\* --------------------------------------------- claims: SpecForce, invariant
\* C17: between top-level calls every dependency of a clean node is clean,
\* every dependent of a dirty node is dirty, and the result a clean node
\* holds is what its thunk gives over the current refs.
C17_CleanNodesHaveCleanDependencies ==
    Quiescent =>
        \A m \in Ids :
            /\ nodes[m].clean =>
                  /\ \A x \in Range(nodes[m].sub) : nodes[x].clean
                  /\ nodes[m].result = Fresh(m)
            /\ ~nodes[m].clean =>
                  \A d \in Range(nodes[m].super) : ~nodes[d].clean

\* C17 witness: after adaptonRefSet and an adaptonForce of the middle node
\* of a chain, that node is clean over a clean ref with a new result, and its
\* dependent is dirty and holds the result of the value before.
C17_Witness ==
    /\ Returned("adaptonForce")
    /\ LET a == call.node
       IN  /\ nodes[a].clean /\ ~pre[a].clean
           /\ pre[a].result.t = "num"
           /\ nodes[a].result # pre[a].result
           /\ nodes[a].sub # << >>
           /\ \E d \in Range(nodes[a].super) :
                 /\ ~nodes[d].clean
                 /\ nodes[d].result.t = "num"
                 /\ nodes[d].result # Fresh(d)

\* C17 witness of the other direction: a ref written by adaptonRefSet is
\* dirty and so are its dependent and the dependent of that.
C17_WitnessDirtyChain ==
    /\ Returned("adaptonRefSet")
    /\ \E a \in Range(nodes[call.node].super) :
          /\ pre[a].clean /\ ~nodes[a].clean
          /\ \E d \in Range(nodes[a].super) : pre[d].clean /\ ~nodes[d].clean

\* ---------------------------------------------- claims: SpecThrow, context
\* C18 as stated: between top-level calls currentlyAdapting is null, also
\* after a call that a thunk's exception ended, and a top-level adaptonForce(x)
\* that returns has added no dependent to x.
C18_ContextNullWhenQuiescent ==
    /\ Quiescent => currentlyAdapting = Null
    /\ Returned("adaptonForce") =>
          nodes[call.node].super = pre[call.node].super

\* C18, what the code does: after the thunk of t threw inside adaptonForce(t)
\* the context is still t, and a later top-level adaptonForce(x) has made t a
\* dependent of x, a node t's thunk never names.
C18_WitnessStaleContextEdge ==
    /\ Returned("adaptonForce")
    /\ LET x == call.node
           t == currentlyAdapting
       IN  /\ t # Null /\ t # x
           /\ x \notin Reads(t)
           /\ t \notin Range(pre[x].super)
           /\ t \in Range(nodes[x].super)
           /\ x \in Range(nodes[t].sub)

=============================================================================
